---- MODULE Spec2Model ----
(***************************************************************************)
(* Model of two pieces of the fast-check repository:                       *)
(*   - packages/worker/src/internals/worker-runner/WorkerRunner.ts         *)
(*     (runWorker, wrapAndRunAsPromise): the message listener of a worker, *)
(*     the promises of the predicate invocations and the microtask queue   *)
(*     that runs their reactions;                                          *)
(*   - packages/fast-check/src/arbitrary/integer.ts                        *)
(*     (buildCompleteIntegerConstraints, integer).                         *)
(***************************************************************************)
EXTENDS Integers, Sequences, FiniteSets, TLC

VARIABLES
    received,     \* history: the messages delivered to the listener, in order
    runs,         \* one record per predicate invocation: its promise, the runId its reactions
                  \* closed over, and as history its message, inputs and the runs unanswered at its start
    jobs,         \* microtask queue: indices of runs whose reaction is queued
    port,         \* the messages posted on parentPort, in order
    origin,       \* history: origin[k] is the run whose reaction posted port[k]
    buildCalls,   \* history: the calls made to buildInputs
    uncaught,     \* history: exceptions that escaped the message listener
    constraints,  \* the argument given to integer()
    fullConstraints, \* integer()'s local of that name, once computed
    result,       \* what integer() did: nothing yet, a throw, or a returned arbitrary
    arbitraries,  \* the IntegerArbitrary instances constructed so far
    inbox,        \* orchestrator to worker: run messages sent and not yet delivered
    pool,         \* orchestrator: one record per dispatched run, its pending result
    delivered     \* orchestrator: how many messages of port it has handled

workerVars == <<received, runs, jobs, port, origin, buildCalls, uncaught>>
integerVars == <<constraints, fullConstraints, result, arbitraries>>
poolVars == <<inbox, pool, delivered>>
vars == <<received, runs, jobs, port, origin, buildCalls, uncaught, constraints, fullConstraints, result, arbitraries, inbox, pool, delivered>>

-----------------------------------------------------------------------------
(* Bounds and input domains                                                *)

MaxMessages == 2

\* the id the worker was registered with (second argument of runWorker)
predicateId == 1

PredicateIds == {1, 2}
RunIds == {100, 101}
MainValues == {"x1"}
StateSeeds == {"s1"}
BuiltInputs == {"x2"}
BuildErrors == {"e0"}
Outputs == {"true", "false", "undefined"}
Errors == {"e1", "e2"}

Payloads ==
    [source : {"main"}, value : MainValues] \cup [source : {"state"}, seed : StateSeeds]

Messages == [payload : Payloads, targetPredicateId : PredicateIds, runId : RunIds]

\* What one call of a caller-supplied function can do: return or throw.
\* The predicate may also return a promise that settles later, or never.
BuildBehaviours ==
    [how : {"return"}, value : BuiltInputs] \cup [how : {"throw"}, value : BuildErrors]

PredicateBehaviours ==
    [how : {"return"}, value : Outputs] \cup [how : {"throw"}, value : Errors]
        \cup [how : {"promise", "hang"}, value : {"none"}]

Settlements ==
    [state : {"fulfilled"}, value : Outputs] \cup [state : {"rejected"}, value : Errors]

-----------------------------------------------------------------------------
(* WorkerRunner.ts                                                         *)

\* line 20 without the filter: every message is taken
IsTargetedAlways(message) == TRUE

\* line 20 with the test inverted
IsTargetedInverted(message) == message.targetPredicateId # predicateId

\* line 20: the message is for this worker's predicate
IsTargeted(message) == message.targetPredicateId = predicateId

\* line 24 with the two branches exchanged
IsMainInverted(payload) == payload.source # "main"

\* line 24: the payload carries materialized inputs
IsMain(payload) == payload.source = "main"

\* line 24: payload.value; reading a field an object lacks gives undefined
PayloadValue(payload) == IF "value" \in DOMAIN payload THEN payload.value ELSE "undefined"

\* lines 43-52 without the try/catch: a throw of the predicate propagates
wrapAndRunUnguarded(b) ==
    CASE b.how = "return" -> [threw |-> FALSE, state |-> "fulfilled", value |-> b.value]
      [] b.how = "throw" -> [threw |-> TRUE, state |-> "none", value |-> b.value]
      [] OTHER -> [threw |-> FALSE, state |-> "pending", value |-> "none"]

\* lines 43-52: the promise wrapAndRunAsPromise returns for a predicate call
\* that behaved as b; threw is TRUE when the call itself raises
wrapAndRunAsPromise(b) ==
    CASE b.how = "return" -> [threw |-> FALSE, state |-> "fulfilled", value |-> b.value]
      [] b.how = "throw" -> [threw |-> FALSE, state |-> "rejected", value |-> b.value]
      [] OTHER -> [threw |-> FALSE, state |-> "pending", value |-> "none"]

\* lines 26-29 reading the runId of the latest message instead of the
\* one the reaction closed over
onFulfilledLatestRunId(output, runId) ==
    [success |-> TRUE, output |-> output, runId |-> received[Len(received)].runId]

\* lines 26-29 dropping the predicate's value
onFulfilledNoOutput(output, runId) == [success |-> TRUE, output |-> "undefined", runId |-> runId]

\* lines 26-29 reporting a predicate that returned false as a failure
onFulfilledFalseFails(output, runId) ==
    IF output = "false"
    THEN [success |-> FALSE, error |-> output, runId |-> runId]
    ELSE [success |-> TRUE, output |-> output, runId |-> runId]

\* lines 26-29: the fulfilment reaction's message
onFulfilled(output, runId) == [success |-> TRUE, output |-> output, runId |-> runId]

\* lines 30-33: the rejection reaction's message
onRejected(error, runId) == [success |-> FALSE, error |-> error, runId |-> runId]

Answered(i) == \E k \in 1..Len(origin) : origin[k] = i

Unanswered == {i \in 1..Len(runs) : ~Answered(i)}

\* lines 25-34: call the predicate on inputs and register the two reactions
StartRun(message, inputs, b) ==
    LET p == wrapAndRunAsPromise(b)
        n == Len(runs) + 1
    IN IF p.threw
       THEN /\ uncaught' = Append(uncaught, [msg |-> Len(received) + 1, from |-> "predicate", error |-> p.value])
            /\ UNCHANGED <<runs, jobs>>
       ELSE /\ runs' = Append(runs, [msg |-> Len(received) + 1, runId |-> message.runId,
                                     inputs |-> inputs, how |-> b.how,
                                     state |-> p.state, value |-> p.value,
                                     inFlight |-> Unanswered])
            /\ jobs' = IF p.state = "pending" THEN jobs ELSE Append(jobs, n)
            /\ UNCHANGED uncaught

\* lines 18-35: the 'message' listener. A listener is a task of the event
\* loop: it starts only once the microtask queue has drained.
Listener(message) ==
    /\ Len(received) < MaxMessages
    /\ jobs = <<>>
    /\ received' = Append(received, message)
    /\ UNCHANGED <<port, origin, integerVars>>
    /\ IF ~IsTargeted(message)
       THEN UNCHANGED <<runs, jobs, buildCalls, uncaught>>
       ELSE IF IsMain(message.payload)
            THEN /\ \E b \in PredicateBehaviours : StartRun(message, PayloadValue(message.payload), b)
                 /\ UNCHANGED buildCalls
            ELSE \E r \in BuildBehaviours :
                    /\ buildCalls' = Append(buildCalls, [msg |-> Len(received) + 1, arg |-> message.payload, how |-> r.how, value |-> r.value])
                    /\ IF r.how = "throw"
                       THEN /\ uncaught' = Append(uncaught, [msg |-> Len(received) + 1, from |-> "buildInputs", error |-> r.value])
                            /\ UNCHANGED <<runs, jobs>>
                       ELSE \E b \in PredicateBehaviours : StartRun(message, r.value, b)

\* lines 18-35: a message from any sender reaches the listener
OnMessage(message) == Listener(message) /\ UNCHANGED poolVars

\* the promise a predicate returned settles: its reaction is queued
Settle(i, s) ==
    /\ runs[i].how = "promise"
    /\ runs[i].state = "pending"
    /\ runs' = [runs EXCEPT ![i].state = s.state, ![i].value = s.value]
    /\ jobs' = Append(jobs, i)
    /\ UNCHANGED <<received, port, origin, buildCalls, uncaught, integerVars, poolVars>>

RECURSIVE Without(_, _)
\* the sequence q without its entries equal to i
Without(q, i) ==
    IF q = <<>> THEN <<>>
    ELSE IF Head(q) = i THEN Without(Tail(q), i)
    ELSE <<Head(q)>> \o Without(Tail(q), i)

\* lines 26-33 answering in order of acceptance: of the queued reactions,
\* the one of the run accepted first is run first
RunJobAcceptanceOrder ==
    /\ jobs # <<>>
    /\ LET i == CHOOSE j \in {jobs[n] : n \in 1..Len(jobs)} :
                    \A n \in 1..Len(jobs) : j <= jobs[n]
           r == runs[i]
       IN /\ port' = Append(port, IF r.state = "fulfilled"
                                  THEN onFulfilled(r.value, r.runId)
                                  ELSE onRejected(r.value, r.runId))
          /\ origin' = Append(origin, i)
          /\ jobs' = Without(jobs, i)
    /\ UNCHANGED <<received, runs, buildCalls, uncaught, integerVars, poolVars>>

\* lines 25-34 with the rejection reaction left out: .then(onFulfilled) alone;
\* the reaction of a rejected promise posts nothing
RunJobNoRejectionHandler ==
    /\ jobs # <<>>
    /\ LET i == Head(jobs)
           r == runs[i]
       IN IF r.state = "fulfilled"
          THEN /\ port' = Append(port, onFulfilled(r.value, r.runId))
               /\ origin' = Append(origin, i)
          ELSE UNCHANGED <<port, origin>>
    /\ jobs' = Tail(jobs)
    /\ UNCHANGED <<received, runs, buildCalls, uncaught, integerVars, poolVars>>

\* lines 26-33: the event loop runs the oldest queued reaction, which posts
RunJob ==
    /\ jobs # <<>>
    /\ LET i == Head(jobs)
           r == runs[i]
       IN /\ port' = Append(port, IF r.state = "fulfilled"
                                  THEN onFulfilled(r.value, r.runId)
                                  ELSE onRejected(r.value, r.runId))
          /\ origin' = Append(origin, i)
    /\ jobs' = Tail(jobs)
    /\ UNCHANGED <<received, runs, buildCalls, uncaught, integerVars, poolVars>>

-----------------------------------------------------------------------------
(* integer.ts                                                              *)

(* JavaScript numbers. A finite number is hi * 65536 + lo + half / 2 with  *)
(* lo in 0..65535 and half in 0..1, so that numbers on both sides of       *)
(* -0x80000000 and 0x7fffffff are at hand; the others are NaN and the two  *)
(* infinities. Undefined is the value of an omitted bound.                 *)
Undefined == [kind |-> "undefined"]
NaN == [kind |-> "NaN"]
PosInfinity == [kind |-> "Infinity", sign |-> 1]
NegInfinity == [kind |-> "Infinity", sign |-> -1]
Finite(hi, lo, half) == [kind |-> "finite", hi |-> hi, lo |-> lo, half |-> half]

His == {-32769, -32768, 0, 1, 32767, 32768}
Los == {0, 2, 5, 65535}
Numbers ==
    {NaN, PosInfinity, NegInfinity}
        \cup {Finite(hi, lo, half) : hi \in His, lo \in Los, half \in 0..1}

\* line 31: -0x80000000
DefaultMin == Finite(-32768, 0, 0)

\* line 32: 0x7fffffff
DefaultMax == Finite(32767, 65535, 0)

\* a > b on two numbers (line 67): false as soon as one of them is NaN
GreaterThan(a, b) ==
    CASE a.kind = "NaN" \/ b.kind = "NaN" -> FALSE
      [] a.kind = "Infinity" -> a.sign = 1 /\ b # a
      [] b.kind = "Infinity" -> b.sign = -1
      [] OTHER -> \/ a.hi > b.hi
                  \/ a.hi = b.hi /\ a.lo > b.lo
                  \/ a.hi = b.hi /\ a.lo = b.lo /\ a.half > b.half

\* line 4: Number.isInteger
safeNumberIsInteger(x) == x.kind = "finite" /\ x.half = 0

\* lines 30-34 testing the bounds for truthiness: 0 and NaN count as omitted
buildCompleteTruthy(c) ==
    [min |-> IF c.min \notin {Undefined, NaN, Finite(0, 0, 0)} THEN c.min ELSE DefaultMin,
     max |-> IF c.max \notin {Undefined, NaN, Finite(0, 0, 0)} THEN c.max ELSE DefaultMax]

\* lines 30-34
buildCompleteIntegerConstraints(c) ==
    [min |-> IF c.min # Undefined THEN c.min ELSE DefaultMin,
     max |-> IF c.max # Undefined THEN c.max ELSE DefaultMax]

\* lines 67-76 without the check of the maximum (lines 73-75)
integerChecksNoMaxCheck(full) ==
    IF GreaterThan(full.min, full.max)
    THEN [kind |-> "throw", message |-> "fc.integer maximum value should be equal or greater than the minimum one"]
    ELSE IF ~safeNumberIsInteger(full.min)
    THEN [kind |-> "throw", message |-> "fc.integer minimum value should be an integer"]
    ELSE [kind |-> "IntegerArbitrary", min |-> full.min, max |-> full.max]

\* lines 67-76 with the two integer checks ahead of the inversion check
integerChecksIntegerFirst(full) ==
    IF ~safeNumberIsInteger(full.min)
    THEN [kind |-> "throw", message |-> "fc.integer minimum value should be an integer"]
    ELSE IF ~safeNumberIsInteger(full.max)
    THEN [kind |-> "throw", message |-> "fc.integer maximum value should be an integer"]
    ELSE IF GreaterThan(full.min, full.max)
    THEN [kind |-> "throw", message |-> "fc.integer maximum value should be equal or greater than the minimum one"]
    ELSE [kind |-> "IntegerArbitrary", min |-> full.min, max |-> full.max]

\* lines 67-76: what integer does once the constraints are complete
integerChecks(full) ==
    IF GreaterThan(full.min, full.max)
    THEN [kind |-> "throw", message |-> "fc.integer maximum value should be equal or greater than the minimum one"]
    ELSE IF ~safeNumberIsInteger(full.min)
    THEN [kind |-> "throw", message |-> "fc.integer minimum value should be an integer"]
    ELSE IF ~safeNumberIsInteger(full.max)
    THEN [kind |-> "throw", message |-> "fc.integer maximum value should be an integer"]
    ELSE [kind |-> "IntegerArbitrary", min |-> full.min, max |-> full.max]

\* lines 70-76: the two integer checks alone
integerChecksNoInversion(full) ==
    IF ~safeNumberIsInteger(full.min)
    THEN [kind |-> "throw", message |-> "fc.integer minimum value should be an integer"]
    ELSE IF ~safeNumberIsInteger(full.max)
    THEN [kind |-> "throw", message |-> "fc.integer maximum value should be an integer"]
    ELSE [kind |-> "IntegerArbitrary", min |-> full.min, max |-> full.max]

\* lines 65-77 with the inversion check made on the bounds as given: it is
\* skipped when the caller omitted one of them
integerInversionOnGiven ==
    /\ result.kind = "none"
    /\ fullConstraints' = buildCompleteIntegerConstraints(constraints)
    /\ result' = IF constraints.min = Undefined \/ constraints.max = Undefined
                 THEN integerChecksNoInversion(fullConstraints')
                 ELSE integerChecks(fullConstraints')
    /\ arbitraries' = IF result'.kind = "IntegerArbitrary"
                      THEN arbitraries \cup {[min |-> result'.min, max |-> result'.max]}
                      ELSE arbitraries
    /\ UNCHANGED <<constraints, workerVars, poolVars>>

\* lines 65-77: one call of integer(constraints)
integer ==
    /\ result.kind = "none"
    /\ fullConstraints' = buildCompleteIntegerConstraints(constraints)
    /\ result' = integerChecks(fullConstraints')
    /\ arbitraries' = IF result'.kind = "IntegerArbitrary"
                      THEN arbitraries \cup {[min |-> result'.min, max |-> result'.max]}
                      ELSE arbitraries
    /\ UNCHANGED <<constraints, workerVars, poolVars>>

Init ==
    /\ received = <<>>
    /\ runs = <<>>
    /\ jobs = <<>>
    /\ port = <<>>
    /\ origin = <<>>
    /\ buildCalls = <<>>
    /\ uncaught = <<>>
    /\ constraints = [min |-> Undefined, max |-> Undefined]
    /\ fullConstraints = [kind |-> "none"]
    /\ result = [kind |-> "none"]
    /\ arbitraries = {}
    /\ inbox = <<>>
    /\ pool = <<>>
    /\ delivered = 0

Next ==
    \/ \E message \in Messages : OnMessage(message)
    \/ \E i \in 1..Len(runs), s \in Settlements : Settle(i, s)
    \/ RunJob

Spec == Init /\ [][Next]_vars

\* the event loop always gets to run a queued reaction; nothing makes a
\* pending promise settle
FairSpec == Spec /\ WF_vars(RunJob)

\* integer() called on any pair of bounds, each given or omitted
InitInteger ==
    /\ received = <<>>
    /\ runs = <<>>
    /\ jobs = <<>>
    /\ port = <<>>
    /\ origin = <<>>
    /\ buildCalls = <<>>
    /\ uncaught = <<>>
    /\ constraints \in [min : Numbers \cup {Undefined}, max : Numbers \cup {Undefined}]
    /\ fullConstraints = [kind |-> "none"]
    /\ result = [kind |-> "none"]
    /\ arbitraries = {}
    /\ inbox = <<>>
    /\ pool = <<>>
    /\ delivered = 0

NextInteger == integer

SpecInteger == InitInteger /\ [][NextInteger]_vars

-----------------------------------------------------------------------------
(* WorkerPool, the orchestrating side (spec 4.5): its code is not part of  *)
(* the sources at hand, it is modelled from the specification.             *)

TimeoutFailure == [kind |-> "TimeoutFailure"]

\* dispatch(predicateId, runId, payload): send a run message on the channel
\* of the predicate, under a runId never used before, and keep a pending
\* result keyed by that runId
dispatch(payload) ==
    /\ Len(pool) < MaxMessages
    /\ LET runId == 100 + Len(pool)
       IN /\ inbox' = Append(inbox, [payload |-> payload, targetPredicateId |-> predicateId, runId |-> runId])
          /\ pool' = Append(pool, [runId |-> runId, status |-> "pending",
                                   outcome |-> [kind |-> "none"], resolutions |-> 0])
    /\ UNCHANGED <<workerVars, integerVars, delivered>>

\* the channel delivers the oldest run message to the worker's listener
Deliver ==
    /\ inbox # <<>>
    /\ Listener(Head(inbox))
    /\ inbox' = Tail(inbox)
    /\ UNCHANGED <<pool, delivered>>

\* on timeout, the pending run is resolved as a TimeoutFailure
Timeout(i) ==
    /\ pool[i].status = "pending"
    /\ pool' = [pool EXCEPT ![i].status = "resolved", ![i].outcome = TimeoutFailure,
                            ![i].resolutions = @ + 1]
    /\ UNCHANGED <<workerVars, integerVars, inbox, delivered>>

\* the orchestrator handles the next response of the worker: it resolves the
\* pending result keyed by the response's runId; a response whose runId has
\* no pending result is discarded
OnResponse ==
    /\ delivered < Len(port)
    /\ delivered' = delivered + 1
    /\ LET m == port[delivered + 1]
       IN pool' = [i \in 1..Len(pool) |->
                     IF pool[i].runId = m.runId /\ pool[i].status = "pending"
                     THEN [pool[i] EXCEPT !.status = "resolved", !.outcome = m,
                                          !.resolutions = @ + 1]
                     ELSE pool[i]]
    /\ UNCHANGED <<workerVars, integerVars, inbox>>

NextPool ==
    \/ \E payload \in Payloads : dispatch(payload)
    \/ Deliver
    \/ \E i \in 1..Len(runs), s \in Settlements : Settle(i, s)
    \/ RunJob
    \/ \E i \in 1..Len(pool) : Timeout(i)
    \/ OnResponse

SpecPool == Init /\ [][NextPool]_vars

TypeOK ==
    /\ Len(received) <= MaxMessages
    /\ Len(port) = Len(origin)
    /\ \A k \in 1..Len(origin) : origin[k] \in 1..Len(runs)

-----------------------------------------------------------------------------
(* Properties of the worker                                                *)

Accepted == {k \in 1..Len(received) : received[k].targetPredicateId = predicateId}

Ignored == {k \in 1..Len(received) : received[k].targetPredicateId # predicateId}

RunsOf(k) == {i \in 1..Len(runs) : runs[i].msg = k}

ResponsesTo(k) == {j \in 1..Len(port) : runs[origin[j]].msg = k}

Unsettled == {i \in 1..Len(runs) : runs[i].state = "pending"}

\* nothing of message k is still going on: no promise of k is pending and
\* no reaction is waiting in the microtask queue
Finished(k) == jobs = <<>> /\ \A i \in RunsOf(k) : runs[i].state # "pending"

\* C1: every accepted message gets exactly one response, carrying its runId,
\* whether input reconstruction and the predicate succeed or fail: never more
\* than one response, and exactly one once the handling of the message is over.
C1_ExactlyOneResponse ==
    \A k \in Accepted :
        /\ Cardinality(ResponsesTo(k)) <= 1
        /\ \A j \in ResponsesTo(k) : port[j].runId = received[k].runId
        /\ Finished(k) => Cardinality(ResponsesTo(k)) = 1

\* C2: a step that delivers a message addressed to another predicateId
\* changes nothing but the delivery itself: no predicate call, no buildInputs
\* call, no response, no exception, the pending runs and their reactions as
\* they were.
C2_OthersIgnored ==
    [][\A m \in Messages :
          (m.targetPredicateId # predicateId /\ received' = Append(received, m))
              => UNCHANGED <<runs, jobs, port, origin, buildCalls, uncaught>>]_vars

\* C2 witness: a message for another predicate was delivered while a run of
\* this worker was pending, and the run is still pending
C2_Witness ==
    /\ Len(received) = 2
    /\ 2 \in Ignored
    /\ Len(runs) = 1
    /\ runs[1].state = "pending"
    /\ port = <<>>

\* the response m reports the outcome of run i under the runId of i's message
Reports(m, i) ==
    /\ m.runId = received[runs[i].msg].runId
    /\ IF m.success
       THEN runs[i].state = "fulfilled" /\ m.output = runs[i].value
       ELSE runs[i].state = "rejected" /\ m.error = runs[i].value

\* C3: when two runs with different runIds were in flight together, each of
\* their responses carries the runId and the outcome of its own run, in
\* whatever order the two settle.
C3_NeverSwapped ==
    \A j, k \in 1..Len(port) :
        LET a == origin[j]
            b == origin[k]
        IN (a \in runs[b].inFlight /\ runs[a].runId # runs[b].runId)
               => Reports(port[j], a) /\ Reports(port[k], b)

\* C3 witness: the run accepted second, while the first was in flight,
\* settled and answered first, with another outcome than the first
C3_Witness ==
    /\ Len(runs) = 2
    /\ runs[1].runId # runs[2].runId
    /\ 1 \in runs[2].inFlight
    /\ origin = <<2, 1>>
    /\ port[1].success # port[2].success

\* C4: a predicate that throws e and one whose promise rejects with e are
\* answered by the same message {success: false, error: e, runId}; no throw
\* of the predicate escapes the listener.
C4_ThrowIsRejection ==
    /\ \A k \in 1..Len(port) :
          LET r == runs[origin[k]]
          IN (r.how = "throw" \/ (r.how = "promise" /\ r.state = "rejected"))
                 => port[k] = [success |-> FALSE, error |-> r.value, runId |-> received[r.msg].runId]
    /\ \A u \in 1..Len(uncaught) : uncaught[u].from # "predicate"
    /\ \A k \in Accepted :
          (\A c \in 1..Len(buildCalls) : buildCalls[c].msg = k => buildCalls[c].how = "return")
              => RunsOf(k) # {}

\* C4 witness: two responses for the same runId and error, one for a
\* synchronous throw and one for a rejected promise
C4_Witness ==
    /\ Len(port) = 2
    /\ runs[origin[1]].how = "throw"
    /\ runs[origin[2]].how = "promise"
    /\ port[1] = port[2]
    /\ port[1] = [success |-> FALSE, error |-> "e1", runId |-> 100]

C7_OncePerAccepted == Len(runs) = Cardinality(Accepted)

\* C8: the payload tag alone chooses the inputs. 'main': no buildInputs call,
\* the predicate is called once on payload.value. 'state': buildInputs is
\* called exactly once, with the payload, and what it returns is what the
\* predicate is called on.
C8_InputsByTag ==
    \A k \in Accepted :
        LET payload == received[k].payload
            calls == {c \in 1..Len(buildCalls) : buildCalls[c].msg = k}
        IN IF payload.source = "main"
           THEN /\ calls = {}
                /\ Cardinality(RunsOf(k)) = 1
                /\ \A i \in RunsOf(k) : runs[i].inputs = payload.value
           ELSE /\ payload.source = "state"
                /\ Cardinality(calls) = 1
                /\ \A c \in calls :
                      /\ buildCalls[c].arg = payload
                      /\ buildCalls[c].how = "return" =>
                            /\ Cardinality(RunsOf(k)) = 1
                            /\ \A i \in RunsOf(k) : runs[i].inputs = buildCalls[c].value

\* C8 witness: one message of each kind was accepted and its predicate called
C8_Witness ==
    /\ Len(runs) = 2
    /\ received[runs[1].msg].payload.source = "main"
    /\ runs[1].inputs = "x1"
    /\ received[runs[2].msg].payload.source = "state"
    /\ runs[2].inputs = "x2"
    /\ Len(buildCalls) = 1

\* the run's inputs satisfied the predicate: it returned, or fulfilled with,
\* true or nothing
Satisfied(r) == r.state = "fulfilled" /\ r.value \in {"true", "undefined"}

ScenarioC(r) ==
    /\ received[r.msg].targetPredicateId = 1
    /\ received[r.msg].runId = 100
    /\ received[r.msg].payload.source = "state"
    /\ Satisfied(r)

\* C9 as stated: the response to scenario C is
\* {runId: 100, success: true, output: undefined}.
C9_OutputUndefined ==
    \A k \in 1..Len(port) :
        ScenarioC(runs[origin[k]])
            => port[k] = [runId |-> 100, success |-> TRUE, output |-> "undefined"]

\* C9 amended: the response to scenario C is {runId: 100, success: true,
\* output: v}, v being what the predicate returned or fulfilled with:
\* undefined for a predicate that returns nothing, true for one that returns
\* true.
C9_OutputIsPredicateValue ==
    \A k \in 1..Len(port) :
        ScenarioC(runs[origin[k]])
            => /\ port[k] = [runId |-> 100, success |-> TRUE, output |-> runs[origin[k]].value]
               /\ port[k].output \in {"true", "undefined"}

\* C9 witness: scenario C answered for a predicate that returned true, and
\* for one that returned nothing
C9_Witness ==
    /\ Len(port) = 2
    /\ ScenarioC(runs[origin[1]])
    /\ ScenarioC(runs[origin[2]])
    /\ port[1].output = "true"
    /\ port[2].output = "undefined"

-----------------------------------------------------------------------------
(* Properties of integer                                                   *)

Whole(n) == Finite(0, n, 0)

\* fractional, NaN or infinite
NotAnInteger(x) == x.kind \in {"NaN", "Infinity"} \/ (x.kind = "finite" /\ x.half = 1)

CompletedMin == IF constraints.min.kind = "undefined" THEN Finite(-32768, 0, 0) ELSE constraints.min

CompletedMax == IF constraints.max.kind = "undefined" THEN Finite(32767, 65535, 0) ELSE constraints.max

\* C5: integer raises, and builds no IntegerArbitrary, whenever the completed
\* bounds are inverted or one of them is fractional, NaN or infinite;
\* otherwise it returns the one IntegerArbitrary it builds, on exactly the
\* completed bounds. integer({min: 5, max: 2}) raises.
C5_FailFast ==
    result.kind # "none" =>
        /\ IF \/ GreaterThan(CompletedMin, CompletedMax)
              \/ NotAnInteger(CompletedMin)
              \/ NotAnInteger(CompletedMax)
           THEN result.kind = "throw" /\ arbitraries = {}
           ELSE /\ result = [kind |-> "IntegerArbitrary", min |-> CompletedMin, max |-> CompletedMax]
                /\ arbitraries = {[min |-> CompletedMin, max |-> CompletedMax]}
        /\ constraints = [min |-> Whole(5), max |-> Whole(2)] => result.kind = "throw"

\* C5 witness: integer({min: 5, max: 2}) has raised
C5_Witness ==
    /\ constraints = [min |-> Whole(5), max |-> Whole(2)]
    /\ result.kind = "throw"
    /\ arbitraries = {}

\* C10: each bound is completed on its own: an omitted min becomes -2^31, an
\* omitted max 2^31-1, a supplied bound (0 too) is kept. integer({min: 65536})
\* covers 65536..2147483647 and integer() covers -2147483648..2147483647.
C10_Defaults ==
    result.kind # "none" =>
        /\ constraints.min = Undefined => fullConstraints.min = Finite(-32768, 0, 0)
        /\ constraints.max = Undefined => fullConstraints.max = Finite(32767, 65535, 0)
        /\ constraints.min # Undefined => fullConstraints.min = constraints.min
        /\ constraints.max # Undefined => fullConstraints.max = constraints.max
        /\ constraints = [min |-> Finite(1, 0, 0), max |-> Undefined]
              => result = [kind |-> "IntegerArbitrary", min |-> Finite(1, 0, 0), max |-> Finite(32767, 65535, 0)]
        /\ constraints = [min |-> Undefined, max |-> Undefined]
              => result = [kind |-> "IntegerArbitrary", min |-> Finite(-32768, 0, 0), max |-> Finite(32767, 65535, 0)]

\* C10 witness: integer({min: 0}) returned an arbitrary over 0..2147483647
C10_Witness ==
    /\ constraints = [min |-> Whole(0), max |-> Undefined]
    /\ result = [kind |-> "IntegerArbitrary", min |-> Whole(0), max |-> Finite(32767, 65535, 0)]

-----------------------------------------------------------------------------
(* Properties of the orchestrator's pending results                        *)

\* the responses the orchestrator has handled that report a run of the
\* i-th dispatched message
HandledResponsesTo(i) == {k \in 1..delivered : runs[origin[k]].msg = i}

C11_ResolvedRight ==
    \A i \in 1..Len(pool) :
        /\ pool[i].resolutions <= 1
        /\ pool[i].status = "resolved" <=> pool[i].resolutions = 1
        /\ pool[i].status = "pending" => HandledResponsesTo(i) = {}
        /\ pool[i].status = "resolved" =>
              \/ pool[i].outcome = TimeoutFailure
              \/ \E k \in HandledResponsesTo(i) :
                    pool[i].outcome = port[k] /\ port[k].runId = pool[i].runId

C11_ResolvedForGood ==
    \A i \in 1..Len(pool) : pool[i].status = "resolved" => pool'[i] = pool[i]

-----------------------------------------------------------------------------
(* Further properties of the worker                                        *)

\* C12: every response is either {runId, success: true, output}, posted for
\* a fulfilled promise with output its value, or {runId, success: false,
\* error}, posted for a throw or a rejected promise with error the thrown or
\* rejected value. A predicate that returns false is answered with
\* success = true and output = false.
C12_TwoShapes ==
    \A k \in 1..Len(port) :
        LET m == port[k]
            r == runs[origin[k]]
        IN /\ \/ /\ DOMAIN m = {"runId", "success", "output"}
                 /\ m.success = TRUE
                 /\ r.state = "fulfilled"
                 /\ r.how \in {"return", "promise"}
                 /\ m.output = r.value
              \/ /\ DOMAIN m = {"runId", "success", "error"}
                 /\ m.success = FALSE
                 /\ r.state = "rejected"
                 /\ r.how \in {"throw", "promise"}
                 /\ m.error = r.value
           /\ m.runId = r.runId
           /\ (r.state = "fulfilled" /\ r.value = "false")
                 => m = [runId |-> r.runId, success |-> TRUE, output |-> "false"]

\* C12 witness: a predicate that returned false was answered with success,
\* and a failure was answered as well
C12_Witness ==
    /\ Len(port) = 2
    /\ runs[origin[1]].how = "return"
    /\ port[1].success /\ port[1].output = "false"
    /\ ~port[2].success /\ port[2].error = "e2"

Settled(i) == i <= Len(runs) /\ runs[i].state # "pending"

\* C13: once its predicate invocation has settled, an accepted message is
\* eventually answered: a settled run stays settled, an answered run stays
\* answered, and again and again every settled run has been answered. A run
\* whose promise never settles is never answered, and it does not keep
\* later runs from being answered.
C13_SettledAnswered ==
    /\ [](\A i \in 1..Len(runs) :
            runs[i].how = "hang" => runs[i].state = "pending" /\ ~Answered(i))
    /\ [][\A i \in 1..Len(runs) :
            /\ Settled(i) => Settled(i)'
            /\ Answered(i) => Answered(i)']_vars
    /\ []<>(\A i \in 1..Len(runs) : Settled(i) => Answered(i))

\* C13 witness: the first run hangs, a message accepted after it has been
\* answered
C13_Witness ==
    /\ Len(runs) = 2
    /\ runs[1].how = "hang"
    /\ runs[1].state = "pending"
    /\ runs[2].msg > runs[1].msg
    /\ origin = <<2>>

\* the runs in the order in which their promises settled: those answered,
\* then those whose reaction is queued
SettleOrder == origin \o jobs

\* C14: responses are posted in the order in which the invocations settle,
\* not in the order of acceptance. Each step in which a run settles puts it
\* last in the settle order, a step that posts a response posts the one of
\* the run that settled first among those not answered, and no other step
\* changes the order.
C14_InSettleOrder ==
    [][LET newly == {i \in 1..Len(runs') :
                        /\ runs'[i].state # "pending"
                        /\ (i > Len(runs) \/ runs[i].state = "pending")}
       IN /\ \A i \in newly : SettleOrder' = Append(SettleOrder, i)
          /\ newly = {} => SettleOrder' = SettleOrder
          /\ Len(port') > Len(port) =>
                /\ jobs # <<>>
                /\ origin' = Append(origin, Head(jobs))
                /\ Len(port') = Len(port) + 1]_vars

\* C14 witness: the message accepted second was answered first
C14_Witness ==
    /\ Len(port) = 2
    /\ runs[origin[1]].msg = 2
    /\ runs[origin[2]].msg = 1
    /\ port[1].runId = received[2].runId
    /\ port[2].runId = received[1].runId

-----------------------------------------------------------------------------
(* Further properties of integer                                           *)

InvertedMessage == "fc.integer maximum value should be equal or greater than the minimum one"

MinimumMessage == "fc.integer minimum value should be an integer"

MaximumMessage == "fc.integer maximum value should be an integer"

Raised(message) == result = [kind |-> "throw", message |-> message]

Fractional(x) == x.kind = "finite" /\ x.half = 1

WholeNumber(x) == x.kind = "finite" /\ x.half = 0

\* C16: with max omitted, an integer min raises the inverted-bounds error
\* when it is above 2^31-1 and succeeds otherwise; with min omitted, an
\* integer max raises it when it is below -2^31 and succeeds otherwise.
C16_SingleBoundOutOfRange ==
    result.kind # "none" =>
        /\ (constraints.max = Undefined /\ WholeNumber(constraints.min)) =>
              IF GreaterThan(constraints.min, Finite(32767, 65535, 0))
              THEN Raised(InvertedMessage)
              ELSE result = [kind |-> "IntegerArbitrary", min |-> constraints.min,
                             max |-> Finite(32767, 65535, 0)]
        /\ (constraints.min = Undefined /\ WholeNumber(constraints.max)) =>
              IF GreaterThan(Finite(-32768, 0, 0), constraints.max)
              THEN Raised(InvertedMessage)
              ELSE result = [kind |-> "IntegerArbitrary", min |-> Finite(-32768, 0, 0),
                             max |-> constraints.max]

\* C16 witness: integer({min: 2^31}) raised the inverted-bounds error
C16_Witness ==
    /\ constraints = [min |-> Finite(32768, 0, 0), max |-> Undefined]
    /\ Raised(InvertedMessage)

====
